---------------------------- MODULE Spec2Model ----------------------------
(***************************************************************************)
(* zplconvert: recovery of a shipping label from a rendered PDF page       *)
(* (extract_label_from_pdf) and the ^GFA raster encoder                    *)
(* (ZPLPrinterApp.print_image).                                            *)
(*                                                                         *)
(* Images are PIL images: a mode ("RGB", "L" or "1"), a size <<w, h>> and  *)
(* one sample per pixel, row-major px[y][x], origin top left.  Lengths the *)
(* code holds as floats are held exactly: a length in inches is an integer *)
(* number of 1/(5*dpi) inch, a pixel coordinate with a fraction is an      *)
(* integer number of tenths of a pixel.  On the letter-like pages of a     *)
(* 203 dpi rendering (1523 to 2436 pixels a side) the code's doubles       *)
(* decide every comparison and truncation as exact arithmetic does.        *)
(***************************************************************************)
EXTENDS Integers, Sequences, FiniteSets, TLC

\* Resolution the pages of the model are rendered at.  The code's callers
\* pass 203; the extraction is the same function of target_dpi, and a small
\* resolution keeps the page buffers small enough to enumerate pixel by pixel.
TargetDpi == 5

\* target_dpi=203, the default of extract_label_from_pdf and what load_preview passes.
DefaultDpi == 203

\* threshold = 240: the detector's luminance threshold.
DetectThreshold == 240

\* range(20): the number of vertical strips of the density analysis.
NumStrips == 20

\* Python's None, for a value that is a tuple when set
None == <<>>

\* Python's None, for a value that is an image when set
NoImage == [mode |-> "None", size |-> <<0, 0>>, px |-> <<>>]

Min2(a, b) == IF a < b THEN a ELSE b
Max2(a, b) == IF a > b THEN a ELSE b
SetMin(S) == CHOOSE m \in S : \A n \in S : m <= n
SetMax(S) == CHOOSE m \in S : \A n \in S : m >= n

\* ceil(a / b) for a >= 0, b > 0
CeilDiv(a, b) == (a + b - 1) \div b

(***************************************************************************)
(* PIL image operations used by the code.                                  *)
(***************************************************************************)
Width(im) == im.size[1]
Height(im) == im.size[2]

Cols(im) == 0 .. Width(im) - 1
Rows(im) == 0 .. Height(im) - 1

\* ITU-R 601-2 luma transform of Image.convert('L') on an RGB pixel.
Luma(rgb) == (rgb[1] * 19595 + rgb[2] * 38470 + rgb[3] * 7471 + 32768) \div 65536

\* img.convert('L'): "RGB" by the luma transform, "1" keeps 0/255, "L" is a copy.
ConvertL(im) ==
    LET At(x, y) == IF im.mode = "RGB" THEN Luma(im.px[y][x]) ELSE im.px[y][x]
    IN  [mode |-> "L", size |-> <<Width(im), Height(im)>>,
         px |-> [y \in 0 .. Height(im) - 1 |-> [x \in 0 .. Width(im) - 1 |-> At(x, y)]]]

\* threshold_fn taking every sample that is not pure white for ink
threshold_fn_below_white(x) == IF x < 255 THEN 0 ELSE 255

\* threshold_fn of the detector: 0 if x < threshold else 255
threshold_fn(x) == IF x < DetectThreshold THEN 0 ELSE 255

\* gray.point(threshold_fn, mode='L')
DetectBinary(gray) ==
    LET At(x, y) == threshold_fn(gray.px[y][x])
    IN  [mode |-> "L", size |-> <<Width(gray), Height(gray)>>,
         px |-> [y \in 0 .. Height(gray) - 1 |-> [x \in 0 .. Width(gray) - 1 |-> At(x, y)]]]

\* ImageOps.invert on an "L" image
Invert(im) ==
    LET At(x, y) == 255 - im.px[y][x]
    IN  [mode |-> im.mode, size |-> <<Width(im), Height(im)>>,
         px |-> [y \in 0 .. Height(im) - 1 |-> [x \in 0 .. Width(im) - 1 |-> At(x, y)]]]

\* Image.getbbox(): the box of the non-zero pixels, right and bottom
\* exclusive, or None when every pixel is zero.
GetBBox(im) ==
    LET xs == {x \in Cols(im) : \E y \in Rows(im) : im.px[y][x] # 0}
        ys == {y \in Rows(im) : \E x \in Cols(im) : im.px[y][x] # 0}
    IN  IF xs = {} THEN None
        ELSE <<SetMin(xs), SetMin(ys), SetMax(xs) + 1, SetMax(ys) + 1>>

\* Image.crop(box): size (right-left, bottom-top); pixels outside the source are 0.
Crop(im, box) ==
    LET At(x, y) ==
            IF x + box[1] \in Cols(im) /\ y + box[2] \in Rows(im)
            THEN im.px[y + box[2]][x + box[1]]
            ELSE IF im.mode = "RGB" THEN <<0, 0, 0>> ELSE 0
    IN  [mode |-> im.mode, size |-> <<box[3] - box[1], box[4] - box[2]>>,
         px |-> [y \in 0 .. (box[4] - box[2]) - 1 |-> [x \in 0 .. (box[3] - box[1]) - 1 |-> At(x, y)]]]

\* Image.rotate(90) without expand=True: the turned image is cut to the
\* size of the source around its centre, what falls outside is lost and
\* what is uncovered is black.
Rotate90NoExpand(im) ==
    LET dx == (Height(im) - Width(im)) \div 2
        dy == (Width(im) - Height(im)) \div 2
        At(x, y) ==
            IF y + dy \in 0 .. Width(im) - 1 /\ x + dx \in 0 .. Height(im) - 1
            THEN im.px[x + dx][Width(im) - 1 - (y + dy)]
            ELSE IF im.mode = "RGB" THEN <<0, 0, 0>> ELSE 0
    IN  [mode |-> im.mode, size |-> <<Width(im), Height(im)>>,
         px |-> [y \in 0 .. Height(im) - 1 |-> [x \in 0 .. Width(im) - 1 |-> At(x, y)]]]

\* Image.rotate(90, expand=True): a quarter turn counter-clockwise; the
\* source pixel (x, y) lands on (y, w - 1 - x).
Rotate90(im) ==
    LET At(x, y) == im.px[x][Width(im) - 1 - y]
    IN  [mode |-> im.mode, size |-> <<Height(im), Width(im)>>,
         px |-> [y \in 0 .. Width(im) - 1 |-> [x \in 0 .. Height(im) - 1 |-> At(x, y)]]]

(***************************************************************************)
(* extract_label_from_pdf, step by step.                                   *)
(***************************************************************************)

\* is_letter_size with the bounds of the bands included
IsLetterSizeClosed(rect) ==
    \/ (540 <= rect[1] /\ rect[1] <= 684 /\ 720 <= rect[2] /\ rect[2] <= 864)
    \/ (720 <= rect[1] /\ rect[1] <= 864 /\ 540 <= rect[2] /\ rect[2] <= 684)

\* is_letter_size from page.rect in points (1/72 in): 7.5in = 540pt,
\* 9.5in = 684pt, 10in = 720pt, 12in = 864pt.
IsLetterSize(rect) ==
    \/ (540 < rect[1] /\ rect[1] < 684 /\ 720 < rect[2] /\ rect[2] < 864)
    \/ (720 < rect[1] /\ rect[1] < 864 /\ 540 < rect[2] /\ rect[2] < 684)

\* Pixel size of page.get_pixmap(matrix=Matrix(dpi/72, dpi/72)) for a page
\* whose rect starts at the origin: the scaled rect rounded outwards.
PixmapSize(rect, dpi) == <<CeilDiv(rect[1] * dpi, 72), CeilDiv(rect[2] * dpi, 72)>>

\* bbox_covers_page without the 5% tolerance: the bbox must reach past the page
BboxCoversPageNoTolerance(box, w, h) ==
    /\ box[1] < 0
    /\ box[2] < 0
    /\ box[3] > w
    /\ box[4] > h

\* bbox_covers_page: bbox[0] < 0.05 w, bbox[1] < 0.05 h, bbox[2] > 0.95 w, bbox[3] > 0.95 h
BboxCoversPage(box, w, h) ==
    /\ 20 * box[1] < w
    /\ 20 * box[2] < h
    /\ 20 * box[3] > 19 * w
    /\ 20 * box[4] > 19 * h

\* strip_width = img.width // 20
StripWidth(w) == w \div NumStrips

\* dark_pixels of strip i: the pixels of binary.crop((i*sw, 0, (i+1)*sw, h)) equal to 0
DarkPixels(binary, i, sw) ==
    LET strip == Crop(binary, <<i * sw, 0, (i + 1) * sw, Height(binary)>>)
    IN  Cardinality({p \in Cols(strip) \X Rows(strip) : strip.px[p[2]][p[1]] = 0})

\* label_strips = [i for i, d in strip_densities if d > 0.02], with
\* d = dark_pixels / (strip_width * img.height); needs strip_width > 0.
LabelStrips(binary) ==
    LET sw == StripWidth(Width(binary))
    IN  {i \in 0 .. NumStrips - 1 :
            50 * DarkPixels(binary, i, sw) > sw * Height(binary)}

\* The left bound without the margin of one strip width
RefineLeftNoMargin(strips, sw) == Max2(0, SetMin(strips) * sw)

\* The horizontal bounds from the strips: one strip width of margin, clamped.
RefineLeft(strips, sw) == Max2(0, SetMin(strips) * sw - sw)
RefineRight(strips, sw, w) == Min2(w, (SetMax(strips) + 1) * sw + sw)

\* The bbox after the density analysis (lines 107-124): the refined box, or
\* the box it was given when no strip qualifies or the band holds no ink.
RefinedBBox(binary, strips, box) ==
    LET w == Width(binary)
        h == Height(binary)
        sw == StripWidth(w)
    IN  IF strips = {} THEN box
        ELSE LET left == RefineLeft(strips, sw)
                 right == RefineRight(strips, sw, w)
                 region_bbox == GetBBox(Invert(Crop(binary, <<left, 0, right, h>>)))
             IN  IF region_bbox = None THEN box
                 ELSE <<left, Max2(0, region_bbox[2] - sw), right,
                        Min2(h, region_bbox[4] + sw)>>

\* max_content_dim and min_content_dim, in pixels (inches times dpi)
MaxContentPx(box) == Max2(box[3] - box[1], box[4] - box[2])
MinContentPx(box) == Min2(box[3] - box[1], box[4] - box[2])

\* The label size with the bounds 5in and 3in included in the larger class
LabelEdgesInclusive(box, dpi) ==
    IF MaxContentPx(box) >= 5 * dpi THEN <<6 * 5 * dpi, 4 * 5 * dpi>>
    ELSE IF MaxContentPx(box) >= 3 * dpi THEN <<4 * 5 * dpi, 2 * 5 * dpi>>
    ELSE <<5 * MaxContentPx(box) + dpi, 5 * MinContentPx(box) + dpi>>

\* <<label_long_edge, label_short_edge>> in units of 1/(5*dpi) inch:
\* 6.0 and 4.0, 4.0 and 2.0, or the content extents plus 0.2.
LabelEdges(box, dpi) ==
    IF MaxContentPx(box) > 5 * dpi THEN <<6 * 5 * dpi, 4 * 5 * dpi>>
    ELSE IF MaxContentPx(box) > 3 * dpi THEN <<4 * 5 * dpi, 2 * 5 * dpi>>
    ELSE <<5 * MaxContentPx(box) + dpi, 5 * MinContentPx(box) + dpi>>

\* int(x) of a non-negative x given in tenths
IntTenths(x10) == x10 \div 10

\* The crop without the clamp of its left and top edges to the page
CropBoxUnclamped(box, edges, w, h) ==
    <<(5 * (box[1] + box[3]) - edges[1]) \div 10,
      (5 * (box[2] + box[4]) - edges[2]) \div 10,
      IntTenths(Min2(10 * w, 5 * (box[1] + box[3]) + edges[1])),
      IntTenths(Min2(10 * h, 5 * (box[2] + box[4]) + edges[2]))>>

\* <<left, top, right, bottom>> of lines 168-178.  In tenths of a pixel the
\* centre is 5*(a+b) and the half extent is the edge in 1/(5*dpi) inch.
CropBox(box, edges, w, h) ==
    LET cx10 == 5 * (box[1] + box[3])
        cy10 == 5 * (box[2] + box[4])
        hw10 == edges[1]
        hh10 == edges[2]
    IN  <<IntTenths(Max2(0, cx10 - hw10)),
          IntTenths(Max2(0, cy10 - hh10)),
          IntTenths(Min2(10 * w, cx10 + hw10)),
          IntTenths(Min2(10 * h, cy10 + hh10))>>

\* spans_page_height = content_height > page_height * 0.7
SpansPageHeight(box, h) == 10 * (box[4] - box[2]) > 7 * h

\* needs_rotation with a square crop counted as landscape
NeedsRotationSquare(size, spans) ==
    IF size[1] >= size[2] THEN TRUE
    ELSE IF spans /\ 2 * size[1] > size[2] THEN TRUE
    ELSE FALSE

\* needs_rotation of lines 213-227 from cropped.size: aspect_ratio > 1.0, or
\* spans_page_height and aspect_ratio > 0.5.
NeedsRotation(size, spans) ==
    IF size[1] > size[2] THEN TRUE
    ELSE IF spans /\ 2 * size[1] > size[2] THEN TRUE
    ELSE FALSE


\* binary of lines 53-60: the page in grayscale, put through threshold_fn
Binary(im) == DetectBinary(ConvertL(im))

(***************************************************************************)
(* The rendered pages of the model.  The rasterizer is an input: a page of *)
(* the pixmap's size carrying an optional frame (ink in the four corner    *)
(* pixels, or a one-pixel border: the full-bleed elements that make the    *)
(* bbox cover the page) and an optional solid block.                       *)
(***************************************************************************)
White == <<255, 255, 255>>
Black == <<0, 0, 0>>
Faint == <<250, 250, 250>>

\* page.rect in points: letter portrait and landscape, a 4x6in label page,
\* 7.5in x 10in (on the classifier's open bounds) and a page just inside them.
Pages == {<<612, 792>>, <<792, 612>>, <<288, 432>>, <<540, 720>>, <<547, 727>>}

Frames == {"none", "corners", "border"}

\* "rules" is the corner pixels and two vertical rules one pixel wide, in
\* the third and the eighteenth twentieth of the width, that keep a fifth
\* of the height free above and below.
OnFrame(frame, w, h, x, y) ==
    IF frame = "corners" THEN x \in {0, w - 1} /\ y \in {0, h - 1}
    ELSE IF frame = "border" THEN x \in {0, w - 1} \/ y \in {0, h - 1}
    ELSE IF frame = "rules"
    THEN \/ x \in {0, w - 1} /\ y \in {0, h - 1}
         \/ /\ x \in {2 * (w \div 20), 17 * (w \div 20)}
            /\ y \in (h \div 5) .. (h - 1 - (h \div 5))
    ELSE FALSE

\* The extents of a block: 1px, 3in, 3in+1px, 5in, 5in+1px and the page's own.
Extents(d, full) == {1, 3 * d, 3 * d + 1, 5 * d, 5 * d + 1, full}

\* The blocks: none (an empty box), or a box at the origin or a little off
\* it, a line one pixel wide or high or a square-cut block of two extents,
\* as far as it fits the page.
Blocks(w, h, d) ==
    {<<0, 0, 0, 0>>} \cup
    {b \in {<<o[1], o[2], o[1] + e[1], o[2] + e[2]>> :
                o \in {<<0, 0>>, <<4, 5>>},
                e \in (Extents(d, w) \X {1}) \cup ({1} \X Extents(d, h))
                       \cup {<<x, x>> : x \in Extents(d, w)}
                       \cup {<<3 * d + 1, 5 * d + 1>>, <<w, h>>}} :
        b[3] <= w /\ b[4] <= h}

\* Black blocks under every frame; one faint block (above the detector's
\* threshold) under every frame; the two rules with no block.
Arts(w, h, d) ==
    [frame : Frames, block : Blocks(w, h, d), ink : {Black}]
    \cup [frame : Frames, block : {<<4, 5, 5 + 3 * d, 6 + 3 * d>>}, ink : {Faint}]
    \cup [frame : {"rules"}, block : {<<0, 0, 0, 0>>}, ink : {Black}]

InBox(x, y, box) == box[1] <= x /\ x < box[3] /\ box[2] <= y /\ y < box[4]

\* img of line 43: the "RGB" image decoded from the pixmap's ppm bytes
Paint(size, art) ==
    LET At(x, y) ==
            IF InBox(x, y, art.block) THEN art.ink
            ELSE IF OnFrame(art.frame, size[1], size[2], x, y) THEN Black
            ELSE White
    IN  [mode |-> "RGB", size |-> <<size[1], size[2]>>,
         px |-> [y \in 0 .. size[2] - 1 |-> [x \in 0 .. size[1] - 1 |-> At(x, y)]]]

(***************************************************************************)
(* ZPLPrinterApp.print_image: the raster encoder.                          *)
(***************************************************************************)

\* img.point(lambda x: 0 if x >= threshold else 255, mode='1')
PrintPoint(gray, threshold) ==
    LET At(x, y) == IF gray.px[y][x] >= threshold THEN 0 ELSE 255
    IN  [mode |-> "1", size |-> <<Width(gray), Height(gray)>>,
         px |-> [y \in 0 .. Height(gray) - 1 |-> [x \in 0 .. Width(gray) - 1 |-> At(x, y)]]]

\* lines 464-473: the copy of pil_image as a mode "1" image; an image that
\* is already mode "1" is taken as it is.
ToMono(im, threshold) ==
    IF im.mode # "1"
    THEN PrintPoint(IF im.mode # "L" THEN ConvertL(im) ELSE im, threshold)
    ELSE im

\* bytes_per_row rounded down
BytesPerRowFloor(width) == width \div 8

\* bytes_per_row = (width + 7) // 8
BytesPerRow(width) == (width + 7) \div 8

Pow2(n) == IF n = 0 THEN 1 ELSE IF n = 1 THEN 2 ELSE IF n = 2 THEN 4
           ELSE IF n = 3 THEN 8 ELSE IF n = 4 THEN 16 ELSE IF n = 5 THEN 32
           ELSE IF n = 6 THEN 64 ELSE 128

\* The byte packed least significant bit first
SumBitsLsbFirst(im, y, j, k) ==
    LET Bit(n) == IF 8 * j + n < Width(im) /\ im.px[y][8 * j + n] # 0 THEN Pow2(n) ELSE 0
    IN  Bit(0) + Bit(1) + Bit(2) + Bit(3) + Bit(4) + Bit(5) + Bit(6) + Bit(7)

RECURSIVE SumBits(_, _, _, _)
\* Byte j of row y of a mode "1" image: pixel 8j+k, when inside the row and
\* non-zero, sets bit 7-k; SumBits adds the bits k .. 7.
SumBits(im, y, j, k) ==
    IF k > 7 THEN 0
    ELSE (IF 8 * j + k < Width(im) /\ im.px[y][8 * j + k] # 0 THEN Pow2(7 - k) ELSE 0)
         + SumBits(im, y, j, k + 1)

\* img.tobytes() of a mode "1" image: the rows one after the other, each
\* packed most significant bit first into ceil(width/8) bytes.
ToBytes(im) ==
    LET stride == (Width(im) + 7) \div 8
    IN  [n \in 1 .. stride * Height(im) |->
            SumBits(im, (n - 1) \div stride, (n - 1) % stride, 0)]

HexDigits == <<"0", "1", "2", "3", "4", "5", "6", "7",
               "8", "9", "A", "B", "C", "D", "E", "F">>

\* ''.join(f'{byte:02X}' for byte in row), as a sequence of characters
HexRow(row) ==
    [n \in 1 .. 2 * Len(row) |->
        IF n % 2 = 1 THEN HexDigits[(row[(n + 1) \div 2] \div 16) + 1]
        ELSE HexDigits[(row[n \div 2] % 16) + 1]]

\* binary_data[i:i+bytes_per_row]
Slice(data, i, n) ==
    [k \in 1 .. Min2(n, Len(data) - i) |-> data[i + k]]

\* hex_rows of lines 485-489: one row per i in range(0, len(binary_data),
\* bytes_per_row); bytes_per_row > 0.
HexRows(data, bytes_per_row) ==
    [r \in 1 .. CeilDiv(Len(data), bytes_per_row) |->
        HexRow(Slice(data, (r - 1) * bytes_per_row, bytes_per_row))]

\* The settings read from the widgets, at their defaults (lines 285-326).
Settings == [pw |-> 812, ll |-> 1218, print_speed |-> 2, darkness |-> 25,
             quantity |-> 1, position_x |-> 0, position_y |-> 10]

\* The ZPL text of lines 498-505, line by line; a line with numbers is the
\* command followed by its fields, and hex_rows are the lines of hex_data.
Zpl(total_bytes, bytes_per_row, hex_rows) ==
    [head |-> <<<<"^XA">>, <<"^PW", Settings.pw>>, <<"^LL", Settings.ll>>,
                <<"^PR", Settings.print_speed, 0, 0>>, <<"^MD", Settings.darkness>>,
                <<"^PQ", Settings.quantity>>,
                <<"^FO", Settings.position_x, Settings.position_y>>>>,
     gfa |-> <<"^GFA", total_bytes, total_bytes, bytes_per_row>>,
     hex_rows |-> hex_rows,
     tail |-> <<<<"^FS">>, <<"^XZ">>>>]

\* No ZPL text
NoZpl == [head |-> <<>>, gfa |-> <<>>, hex_rows |-> <<>>, tail |-> <<>>]

\* What print_image does with an image and a threshold: the ZPL it builds,
\* or the exception it raises before any (range() with a step of 0).
Encode(im, threshold) ==
    LET mono == ToMono(im, threshold)
        bytes_per_row == BytesPerRow(Width(mono))
        binary_data == ToBytes(mono)
    IN  IF im = NoImage
        THEN [error |-> "'NoneType' object has no attribute 'copy'", zpl |-> NoZpl]
        ELSE IF bytes_per_row = 0
        THEN [error |-> "range() arg 3 must not be zero", zpl |-> NoZpl]
        ELSE [error |-> "",
              zpl |-> Zpl(bytes_per_row * Height(mono), bytes_per_row,
                          HexRows(binary_data, bytes_per_row))]

(***************************************************************************)
(* The images handed to print_image in the model: every size up to         *)
(* MaxW x MaxH, zero included, in each mode, with one of a few patterns    *)
(* of two samples.                                                         *)
(***************************************************************************)
MaxW == 9
MaxH == 2

\* The print jobs of one run of the model.
MaxJobs == 1

Yellow == <<255, 255, 0>>
Blue == <<0, 0, 255>>

\* <<sample of the marked pixels, sample of the others>> per mode
Samples(md) ==
    IF md = "1" THEN {<<0, 255>>, <<255, 0>>}
    ELSE IF md = "L" THEN {<<0, 255>>, <<127, 128>>}
    ELSE {<<Black, White>>, <<Blue, Yellow>>}

\* The marked pixels: none, the first pixel, the last pixel, or every other pixel.
Marks(w, h) ==
    {{}} \cup {{q} : q \in {<<0, 0>>, <<w - 1, h - 1>>} \cap ((0 .. w - 1) \X (0 .. h - 1))}
         \cup {{q \in (0 .. w - 1) \X (0 .. h - 1) : (q[1] + q[2]) % 2 = 0}}

TestImage(md, w, h, marks, smp) ==
    LET At(x, y) == IF <<x, y>> \in marks THEN smp[1] ELSE smp[2]
    IN  [mode |-> md, size |-> <<w, h>>,
         px |-> [y \in 0 .. h - 1 |-> [x \in 0 .. w - 1 |-> At(x, y)]]]

TestImages ==
    UNION {UNION {{TestImage(md, w, h, m, smp) : m \in Marks(w, h), smp \in Samples(md)} :
                    md \in {"1", "L", "RGB"}} :
             <<w, h>> \in (0 .. MaxW) \X (0 .. MaxH)}

\* The values of the threshold spinbox the model tries (from_=0, to=255).
Thresholds == {0, 128, 255}

(***************************************************************************)
(* State.                                                                  *)
(***************************************************************************)
VARIABLES
    page_rect,          \* page.rect of the PDF's first page, <<width, height>> in points
    pc,                 \* where extract_label_from_pdf stands
    is_letter_size,
    img,                \* the rendered page
    bbox,               \* the content bbox, None before detection
    bbox_covers_page,
    label_strips,       \* empty until the density analysis ran
    label_edges,        \* <<label_long_edge, label_short_edge>>
    crop_box,           \* <<left, top, right, bottom>> of the crop
    cropped,
    needs_rotation,
    result,             \* the image returned, NoImage until then
    printed,            \* the debug output, one entry per print
    image_path,         \* self.image_path, "" when no file is selected
    pil_image,          \* self.pil_image
    threshold_var,      \* the B/W threshold spinbox
    temp_file,          \* what print_image last wrote to temp_print.zpl
    spooled,            \* the files handed to lp, in order
    status_var,         \* the status line
    extract_label_var,  \* the "Auto-extract label" checkbox
    print_button        \* state of the Print button, "disabled" or "normal"

exVars == <<page_rect, pc, is_letter_size, img, bbox, bbox_covers_page,
            label_strips, label_edges, crop_box, cropped, needs_rotation,
            result, printed>>

prVars == <<image_path, pil_image, threshold_var, temp_file, spooled, status_var,
            extract_label_var, print_button>>

vars == <<exVars, prVars>>

ExInit ==
    /\ page_rect \in Pages
    /\ pc = "open"
    /\ is_letter_size = FALSE
    /\ img = NoImage
    /\ bbox = None
    /\ bbox_covers_page = FALSE
    /\ label_strips = {}
    /\ label_edges = None
    /\ crop_box = None
    /\ cropped = NoImage
    /\ needs_rotation = FALSE
    /\ result = NoImage
    /\ printed = <<>>

\* lines 20-45: open the document, classify the page, render it
OpenAndRender ==
    /\ pc = "open"
    /\ \E art \in Arts(PixmapSize(page_rect, TargetDpi)[1],
                       PixmapSize(page_rect, TargetDpi)[2], TargetDpi) :
          img' = Paint(PixmapSize(page_rect, TargetDpi), art)
    /\ is_letter_size' = IsLetterSize(page_rect)
    /\ printed' = printed \o <<<<"PDF page size", page_rect>>,
                               <<"Is letter size", IsLetterSize(page_rect)>>>>
    /\ pc' = "rendered"
    /\ UNCHANGED <<page_rect, bbox, bbox_covers_page, label_strips, label_edges,
                   crop_box, cropped, needs_rotation, result>>
    /\ UNCHANGED prVars

\* lines 47-49: not letter size, return the page as rendered
ReturnAsIs ==
    /\ pc = "rendered"
    /\ ~is_letter_size
    /\ result' = img
    /\ pc' = "done"
    /\ UNCHANGED <<page_rect, is_letter_size, img, bbox, bbox_covers_page,
                   label_strips, label_edges, crop_box, cropped, needs_rotation,
                   printed>>
    /\ UNCHANGED prVars

\* lines 51-72: binarize, take the bbox of the dark content; return the page
\* when there is none
Detect ==
    /\ pc = "rendered"
    /\ is_letter_size
    /\ LET found == GetBBox(Invert(Binary(img)))
       IN  IF found = None
           THEN /\ printed' = Append(printed,
                       <<"No content bounding box found, returning original">>)
                /\ result' = img
                /\ pc' = "done"
                /\ UNCHANGED bbox
           ELSE /\ bbox' = found
                /\ printed' = printed \o <<<<"Initial content bbox", found>>,
                                           <<"Original image size", img.size>>>>
                /\ pc' = "bbox"
                /\ UNCHANGED result
    /\ UNCHANGED <<page_rect, is_letter_size, img, bbox_covers_page, label_strips,
                   label_edges, crop_box, cropped, needs_rotation>>
    /\ UNCHANGED prVars

\* lines 74-84: does the bbox cover the whole page
CheckCoverage ==
    /\ pc = "bbox"
    /\ bbox_covers_page' = BboxCoversPage(bbox, Width(img), Height(img))
    /\ IF BboxCoversPage(bbox, Width(img), Height(img))
       THEN /\ printed' = Append(printed,
                   <<"Bbox covers whole page - using column density analysis">>)
            /\ pc' = "density"
       ELSE /\ printed' = Append(printed, <<"Final content bbox", bbox>>)
            /\ pc' = "final_bbox"
    /\ UNCHANGED <<page_rect, is_letter_size, img, bbox, label_strips, label_edges,
                   crop_box, cropped, needs_rotation, result>>
    /\ UNCHANGED prVars

\* lines 86-130: the column density analysis.  The density divides by
\* strip_width * img.height: a page narrower than 20 pixels raises
\* ZeroDivisionError out of the function.
DensityAnalysis ==
    /\ pc = "density"
    /\ IF StripWidth(Width(img)) = 0
       THEN /\ pc' = "ZeroDivisionError"
            /\ UNCHANGED <<bbox, label_strips, printed>>
       ELSE LET binary == Binary(img)
                strips == LabelStrips(binary)
                refined == RefinedBBox(binary, strips, bbox)
            IN  /\ label_strips' = strips
                /\ bbox' = refined
                /\ printed' = printed \o
                     <<<<"Strip densities">>>> \o
                     (IF strips # {}
                      THEN <<<<"Refined bbox from density analysis", refined>>>>
                      ELSE <<>>) \o
                     <<<<"Final content bbox", refined>>>>
                /\ pc' = "final_bbox"
    /\ UNCHANGED <<page_rect, is_letter_size, img, bbox_covers_page, label_edges,
                   crop_box, cropped, needs_rotation, result>>
    /\ UNCHANGED prVars

\* lines 132-165: the label size from the content dimensions
LabelSize ==
    /\ pc = "final_bbox"
    /\ label_edges' = LabelEdges(bbox, TargetDpi)
    /\ printed' = printed \o
         <<<<"Content size in inches", bbox[3] - bbox[1], bbox[4] - bbox[2]>>,
           <<"Detected label size", LabelEdges(bbox, TargetDpi)>>>>
    /\ pc' = "label_size"
    /\ UNCHANGED <<page_rect, is_letter_size, img, bbox, bbox_covers_page,
                   label_strips, crop_box, cropped, needs_rotation, result>>
    /\ UNCHANGED prVars

\* lines 167-188: the crop centred on the content, sized for the label.
\* Image.crop raises ValueError when right < left or bottom < top.
CropToLabel ==
    /\ pc = "label_size"
    /\ LET box == CropBox(bbox, label_edges, Width(img), Height(img))
       IN  /\ crop_box' = box
           /\ IF box[3] < box[1] \/ box[4] < box[2]
              THEN /\ pc' = "ValueError"
                   /\ UNCHANGED <<cropped, printed>>
              ELSE /\ cropped' = Crop(img, box)
                   /\ printed' = printed \o
                        <<<<"Crop region for full label", box>>,
                          <<"Crop size", box[3] - box[1], box[4] - box[2]>>,
                          <<"Cropped size", <<box[3] - box[1], box[4] - box[2]>>>>>>
                   /\ pc' = "cropped"
    /\ UNCHANGED <<page_rect, is_letter_size, img, bbox, bbox_covers_page,
                   label_strips, label_edges, needs_rotation, result>>
    /\ UNCHANGED prVars

\* lines 190-238: the rotation decision, the rotation, the return.
\* aspect_ratio divides by crop_height.
Orient ==
    /\ pc = "cropped"
    /\ IF Height(cropped) = 0
       THEN /\ pc' = "ZeroDivisionError"
            /\ UNCHANGED <<needs_rotation, result, printed>>
       ELSE LET spans == SpansPageHeight(bbox, Height(img))
                rot == NeedsRotation(cropped.size, spans)
                out == IF rot THEN Rotate90(cropped) ELSE cropped
            IN  /\ needs_rotation' = rot
                /\ result' = out
                /\ printed' = printed \o
                     <<<<"Spans most of page height", spans>>>> \o
                     (IF Width(cropped) > Height(cropped)
                      THEN <<<<"Landscape orientation detected">>>>
                      ELSE IF rot
                      THEN <<<<"Tall content spanning page height - likely rotated label">>>>
                      ELSE <<>>) \o
                     (IF rot THEN <<<<"Rotating 90 degrees counter-clockwise">>>> ELSE <<>>) \o
                     <<<<"Final size", out.size>>>>
                /\ pc' = "done"
    /\ UNCHANGED <<page_rect, is_letter_size, img, bbox, bbox_covers_page,
                   label_strips, label_edges, crop_box, cropped>>
    /\ UNCHANGED prVars

\* The extraction is not running.
ExIdle ==
    /\ page_rect = None
    /\ pc = "idle"
    /\ is_letter_size = FALSE
    /\ img = NoImage
    /\ bbox = None
    /\ bbox_covers_page = FALSE
    /\ label_strips = {}
    /\ label_edges = None
    /\ crop_box = None
    /\ cropped = NoImage
    /\ needs_rotation = FALSE
    /\ result = NoImage
    /\ printed = <<>>

\* __init__ (lines 248-249, 315, 336, 358, 365): no file, no image, the
\* checkbox set, the Print button disabled
PrIdle ==
    /\ image_path = ""
    /\ pil_image = NoImage
    /\ threshold_var = 128
    /\ temp_file = NoZpl
    /\ spooled = <<>>
    /\ status_var = "Ready"
    /\ extract_label_var = TRUE
    /\ print_button = "disabled"

\* A file is selected and its image loaded (lines 381, 423).
PrInit ==
    /\ image_path = "label.png"
    /\ pil_image \in TestImages
    /\ threshold_var \in Thresholds
    /\ temp_file = NoZpl
    /\ spooled = <<>>
    /\ status_var = "Selected: label.png"
    /\ extract_label_var = TRUE
    /\ print_button = "normal"

\* The user sets the threshold spinbox (lines 315-317).
SetThreshold ==
    /\ \E t \in Thresholds : t # threshold_var /\ threshold_var' = t
    /\ UNCHANGED <<image_path, pil_image, temp_file, spooled, status_var,
                   extract_label_var, print_button>>
    /\ UNCHANGED exVars

\* print_image (lines 448-544).  The ZPL is written to the temporary file
\* and the file handed to lp, whose return code decides the status; an
\* exception on the way is shown as the status and nothing is spooled.
PrintImage ==
    /\ image_path # ""
    /\ Len(spooled) < MaxJobs
    /\ LET enc == Encode(pil_image, threshold_var)
       IN  IF enc.error # ""
           THEN /\ status_var' = "Error: " \o enc.error
                /\ UNCHANGED <<temp_file, spooled>>
           ELSE /\ temp_file' = enc.zpl
                /\ spooled' = Append(spooled, enc.zpl)
                /\ \E returncode \in {0, 1} :
                      status_var' = IF returncode = 0
                                    THEN "Print job sent successfully"
                                    ELSE "Error sending print job: "
    /\ UNCHANGED <<image_path, pil_image, threshold_var, extract_label_var,
                   print_button>>
    /\ UNCHANGED exVars

ExNext ==
    \/ OpenAndRender
    \/ ReturnAsIs
    \/ Detect
    \/ CheckCoverage
    \/ DensityAnalysis
    \/ LabelSize
    \/ CropToLabel
    \/ Orient

\* extract_label_from_pdf on one page
Init == ExInit /\ PrIdle

Next == ExNext

Spec == Init /\ [][Next]_vars

\* print_image on one loaded image
InitPrint == ExIdle /\ PrInit

NextPrint == SetThreshold \/ PrintImage

SpecPrint == InitPrint /\ [][NextPrint]_vars

(***************************************************************************)
(* ZPLPrinterApp: the file dialog, the checkbox and the Print button.      *)
(***************************************************************************)

\* extract_label_from_pdf as load_preview calls it, start to return: the
\* steps above in one piece, last step first.  The outcome is the image
\* returned, or the exception raised on the way.

\* lines 190-238: the crop, turned if the rule says so
Oriented(cut, spans) ==
    [error |-> "",
     image |-> IF NeedsRotation(cut.size, spans) THEN Rotate90(cut) ELSE cut]

\* lines 180-238: the crop is cut out (right < left or bottom < top raises
\* ValueError) and its aspect ratio taken (a crop of height 0 divides by zero)
FromCropBox(page, box, crop) ==
    IF crop[3] < crop[1] \/ crop[4] < crop[2]
    THEN [error |-> "Coordinate 'right' is less than 'left'", image |-> NoImage]
    ELSE IF crop[4] = crop[2]
    THEN [error |-> "division by zero", image |-> NoImage]
    ELSE Oriented(Crop(page, crop), SpansPageHeight(box, Height(page)))

\* lines 132-238: from the final content bbox
FromContentBBox(page, box, dpi) ==
    FromCropBox(page, box,
                CropBox(box, LabelEdges(box, dpi), Width(page), Height(page)))

\* lines 65-238: from the detector's bbox
FromBBox(page, binary, found, dpi) ==
    IF found = None THEN [error |-> "", image |-> page]
    ELSE IF BboxCoversPage(found, Width(page), Height(page)) /\ StripWidth(Width(page)) = 0
    THEN [error |-> "division by zero", image |-> NoImage]
    ELSE FromContentBBox(page,
             IF BboxCoversPage(found, Width(page), Height(page))
             THEN RefinedBBox(binary, LabelStrips(binary), found)
             ELSE found,
             dpi)

\* lines 62-238: from the binarized page
FromBinary(page, binary, dpi) == FromBBox(page, binary, GetBBox(Invert(binary)), dpi)

\* page is the rendered first page, rect its page.rect
ExtractLabel(rect, page, dpi) ==
    IF ~IsLetterSize(rect) THEN [error |-> "", image |-> page]
    ELSE FromBinary(page, Binary(page), dpi)

\* What the file dialog can return: two images, a file that is no image, a
\* one-page PDF of a letter page carrying a label, a PDF without pages.
Paths == {"a.png", "b.png", "bad.png", "label.pdf", "empty.pdf"}

\* self.image_path.lower().endswith('.pdf')
EndsWithPdf(path) == path \in {"label.pdf", "empty.pdf"}

\* The content of the files: kind "image" with the image Image.open gives,
\* kind "pdf" with its page count, the first page's rect and what is drawn
\* on it, kind "unreadable" for a file neither library can open.
FileAt(path) ==
    CASE path = "a.png" ->
            [kind |-> "image", image |-> TestImage("L", 3, 2, {<<0, 0>>}, <<0, 255>>),
             pages |-> 0, rect |-> None, art |-> None]
      [] path = "b.png" ->
            [kind |-> "image", image |-> TestImage("RGB", 2, 2, {<<1, 1>>}, <<Black, White>>),
             pages |-> 0, rect |-> None, art |-> None]
      [] path = "bad.png" ->
            [kind |-> "unreadable", image |-> NoImage,
             pages |-> 0, rect |-> None, art |-> None]
      [] path = "label.pdf" ->
            [kind |-> "pdf", image |-> NoImage, pages |-> 1, rect |-> <<612, 792>>,
             art |-> [frame |-> "none", ink |-> Black,
                      block |-> <<4, 5, 5 + 3 * TargetDpi, 6 + 5 * TargetDpi>>]]
      [] path = "empty.pdf" ->
            [kind |-> "pdf", image |-> NoImage, pages |-> 0, rect |-> None, art |-> None]

\* The first page of a PDF as page.get_pixmap renders it
Rendered(file) == Paint(PixmapSize(file.rect, TargetDpi), file.art)

\* The try block of load_preview up to the assignment of self.pil_image
\* (lines 395-423): the image assigned and the status set on the way, or the
\* exception raised before anything was assigned.
OpenImage(path, extract) ==
    LET file == FileAt(path)
    IN  IF EndsWithPdf(path)
        THEN IF file.kind # "pdf"
             THEN [error |-> "cannot open broken document", image |-> NoImage, status |-> ""]
             ELSE IF file.pages = 0
             THEN [error |-> "PDF file is empty", image |-> NoImage, status |-> ""]
             ELSE IF extract
             THEN LET got == ExtractLabel(file.rect, Rendered(file), TargetDpi)
                  IN  [error |-> got.error, image |-> got.image,
                       status |-> IF got.error # "" THEN ""
                                  ELSE IF file.pages > 1
                                  THEN "PDF has " \o ToString(file.pages)
                                         \o " pages - extracted label from page 1"
                                  ELSE "Label extracted: " \o ToString(Width(got.image))
                                         \o "x" \o ToString(Height(got.image)) \o " px"]
             ELSE [error |-> "", image |-> Rendered(file),
                   status |-> IF file.pages > 1
                              THEN "PDF has " \o ToString(file.pages) \o " pages - using page 1"
                              ELSE ""]
        ELSE IF file.kind # "image"
        THEN [error |-> "cannot identify image file", image |-> NoImage, status |-> ""]
        ELSE [error |-> "", image |-> file.image, status |-> ""]

\* What each file opens as under each setting of the checkbox: the files do
\* not change while the application runs.
Opened == [path \in Paths |-> [extract \in BOOLEAN |-> OpenImage(path, extract)]]

\* load_preview (lines 392-446) as the pair <<self.pil_image, status_var>>
\* it leaves, from the pair it found.  An exception is caught and shown: one
\* raised before line 404, 417 or 423 assigned leaves self.pil_image as it
\* was; the preview's ratio divides by the image's width and height.
LoadPreview(path, extract, image, status) ==
    LET got == Opened[path][extract]
        set == IF got.status # "" THEN got.status ELSE status
    IN  IF got.error # ""
        THEN <<image, "Error loading image: " \o got.error>>
        ELSE IF Width(got.image) = 0 \/ Height(got.image) = 0
        THEN <<got.image, "Error loading image: division by zero">>
        ELSE <<got.image, set>>

\* browse_file (lines 369-385) with a file chosen; a cancelled dialog
\* changes nothing.
BrowseFile ==
    /\ \E file_path \in Paths :
          /\ image_path' = file_path
          /\ pil_image' = LoadPreview(file_path, extract_label_var, pil_image, status_var)[1]
          /\ status_var' = "Selected: " \o file_path
    /\ print_button' = "normal"
    /\ UNCHANGED <<threshold_var, temp_file, spooled, extract_label_var>>
    /\ UNCHANGED exVars

\* A click on the checkbox: the variable flips, then on_extract_toggle
\* (lines 387-390) reloads the preview if a file is selected.
OnExtractToggle ==
    /\ extract_label_var' = ~extract_label_var
    /\ IF image_path # ""
       THEN /\ pil_image' = LoadPreview(image_path, ~extract_label_var, pil_image, status_var)[1]
            /\ status_var' = LoadPreview(image_path, ~extract_label_var, pil_image, status_var)[2]
       ELSE UNCHANGED <<pil_image, status_var>>
    /\ UNCHANGED <<image_path, threshold_var, temp_file, spooled, print_button>>
    /\ UNCHANGED exVars

\* A click on the Print button (line 358): print_image, once the button is enabled.
ClickPrint ==
    /\ print_button = "normal"
    /\ PrintImage

\* The application from its construction
InitApp == ExIdle /\ PrIdle

NextApp == BrowseFile \/ OnExtractToggle \/ SetThreshold \/ ClickPrint

SpecApp == InitApp /\ [][NextApp]_vars



(***************************************************************************)
(* Properties of extract_label_from_pdf.                                   *)
(***************************************************************************)

\* What a debug line printed, if it was printed.
Said(text) == \E n \in 1 .. Len(printed) : printed[n][1] = text
Value(text) == printed[CHOOSE n \in 1 .. Len(printed) : printed[n][1] = text][2]

\* A length of pt points lies strictly between lo and hi tenths of an inch.
Between(pt, lo, hi) == 72 * lo < 10 * pt /\ 10 * pt < 72 * hi

\* 7.5-9.5in x 10-12in or its transpose
LetterLike(rect) ==
    \/ Between(rect[1], 75, 95) /\ Between(rect[2], 100, 120)
    \/ Between(rect[1], 100, 120) /\ Between(rect[2], 75, 95)

\* No pixel of the page has a grayscale sample below 240.
NoInk(im) == \A y \in Rows(im) : \A x \in Cols(im) : Luma(im.px[y][x]) >= 240

\* The function returned this page as it was rendered: no crop, no rotation.
Untouched ==
    /\ result = img
    /\ result.size = PixmapSize(page_rect, TargetDpi)
    /\ crop_box = None
    /\ cropped = NoImage
    /\ ~needs_rotation

\* C1: a page that is not letter-like (neither 7.5-9.5in x 10-12in nor the
\* transpose, the bands open) is returned as rendered: same size, same
\* pixels, no crop and no rotation, whatever ink it carries.
C1_NonLetterPageReturnedUnchanged ==
    (pc # "open" /\ ~LetterLike(page_rect)) =>
        /\ pc \in {"rendered", "done"}
        /\ pc = "done" => Untouched

\* C1 witness: the 7.5in x 10in page, with ink on it, came back unchanged.
C1_Witness ==
    /\ pc = "done"
    /\ page_rect = <<540, 720>>
    /\ ~NoInk(img)
    /\ result = img

\* C2 as stated: every page with no sample below 240, letter-like or not,
\* ends with the detector reporting empty, the page returned unmodified and
\* the status "no content bounding box found".
C2_Original ==
    (pc = "done" /\ NoInk(img)) =>
        /\ Untouched
        /\ Said("No content bounding box found, returning original")

\* The page rects, in whole points, around the ones whose pixmap at 203 dpi
\* measures 850 x 1100 pixels (301.2-301.5pt x 389.8-390.1pt): 4.19in x 5.42in.
C2_ScenarioNotLetter ==
    /\ PixmapSize(<<301, 389>>, DefaultDpi)[1] < 850
    /\ PixmapSize(<<301, 389>>, DefaultDpi)[2] < 1100
    /\ PixmapSize(<<302, 391>>, DefaultDpi)[1] > 850
    /\ PixmapSize(<<302, 391>>, DefaultDpi)[2] > 1100
    /\ \A rect \in (301 .. 302) \X (389 .. 391) : ~IsLetterSize(rect)

\* C2 amended: a letter-like page with no sample below 240 gets no bbox from
\* the detector and is returned unmodified with the status "no content
\* bounding box found"; a page that is not letter-like (the 850x1100px page
\* at 203 dpi is one) is returned unmodified too, but without the detector
\* running and without that status.
C2_NoInkPageReturnedUnchanged ==
    /\ C2_ScenarioNotLetter
    /\ (pc # "open" /\ NoInk(img) /\ LetterLike(page_rect)) =>
          /\ pc \in {"rendered", "done"}
          /\ bbox = None
          /\ pc = "done" =>
                /\ Untouched
                /\ Said("No content bounding box found, returning original")
    /\ (pc = "done" /\ NoInk(img) /\ ~LetterLike(page_rect)) =>
          /\ Untouched
          /\ bbox = None
          /\ ~Said("No content bounding box found, returning original")

\* C2 witness: a letter page whose only marks are faint (250) was returned
\* with the status.
C2_Witness ==
    /\ pc = "done"
    /\ page_rect = <<612, 792>>
    /\ NoInk(img)
    /\ \E y \in Rows(img) : \E x \in Cols(img) : img.px[y][x] = Faint
    /\ result = img
    /\ Said("No content bounding box found, returning original")

\* The bbox has its left edge within 5% of the width and its top edge within
\* 5% of the height from the origin, its right edge beyond 95% of the width
\* and its bottom edge beyond 95% of the height.
CoversAllSides(box, w, h) ==
    /\ 100 * box[1] < 5 * w
    /\ 100 * box[2] < 5 * h
    /\ 100 * box[3] > 95 * w
    /\ 100 * box[4] > 95 * h

\* The label was sized from the bbox: the place is past the bbox decision.
Sized == pc \in {"label_size", "cropped", "done"} /\ bbox # None

\* C7 as stated: a bbox covering the page on all sides is never the one the
\* label is sized, cropped and oriented from; the density analysis replaces it.
C7_Original ==
    (Sized /\ CoversAllSides(Value("Initial content bbox"), Width(img), Height(img))) =>
        /\ Said("Strip densities")
        /\ Said("Refined bbox from density analysis")
        /\ bbox = Value("Refined bbox from density analysis")

\* C7 amended: a bbox covering the page on all sides always goes through the
\* column-density analysis; the box used afterwards is the refined one when
\* some strip is denser than 2%, and the raw bbox itself when none is.
C7_CoveringBboxGoesThroughDensityAnalysis ==
    LET raw == Value("Initial content bbox")
    IN  (Said("Initial content bbox") /\ pc \notin {"bbox", "ZeroDivisionError"}
         /\ CoversAllSides(raw, Width(img), Height(img))) =>
            /\ pc # "density" =>
                  /\ Said("Strip densities")
                  /\ Value("Final content bbox") = bbox
                  /\ label_strips # {} =>
                        /\ Said("Refined bbox from density analysis")
                        /\ bbox = Value("Refined bbox from density analysis")
                  /\ label_strips = {} =>
                        /\ ~Said("Refined bbox from density analysis")
                        /\ bbox = raw

\* C7 witness: a covering bbox was replaced by a narrower refined one, and
\* the label cropped from that.
C7_Witness ==
    /\ pc = "done"
    /\ bbox_covers_page
    /\ label_strips # {}
    /\ bbox # Value("Initial content bbox")
    /\ bbox[3] - bbox[1] < Width(img) - 4
    /\ cropped # NoImage

\* A box is a valid rectangle of a w x h page.
ValidBox(box, w, h) ==
    /\ 0 <= box[1] /\ box[1] < box[3] /\ box[3] <= w
    /\ 0 <= box[2] /\ box[2] < box[4] /\ box[4] <= h

\* The crop of every box of a 203 dpi letter page (1726 x 2234 px) whose
\* edges are taken every 157th pixel and next to the page's edges.
C8_At203 ==
    LET xs == {x \in 0 .. 1726 : x % 157 = 0 \/ x \in {1, 1725, 1726}}
        ys == {y \in 0 .. 2234 : y % 157 = 0 \/ y \in {1, 2233, 2234}}
    IN  \A l \in xs, r \in xs, t \in ys, b \in ys :
            (l < r /\ t < b) =>
                ValidBox(CropBox(<<l, t, r, b>>, LabelEdges(<<l, t, r, b>>, DefaultDpi),
                                 1726, 2234), 1726, 2234)

\* C8: the content bbox of a letter-like page is a valid rectangle of the
\* page, and the crop computed from it, its edges truncated to integers, is
\* one too: 0 <= left < right <= width and 0 <= top < bottom <= height.
C8_CropIsValid ==
    /\ C8_At203
    /\ pc # "ValueError"
    /\ bbox # None => ValidBox(bbox, Width(img), Height(img))
    /\ crop_box # None =>
          /\ ValidBox(crop_box, Width(img), Height(img))
          /\ cropped # NoImage =>
                cropped.size = <<crop_box[3] - crop_box[1], crop_box[4] - crop_box[2]>>

\* C8 witness: a crop that was clamped to the page at its left and top edges
\* and truncated (the centre of an odd-sized bbox lies on a half pixel).
C8_Witness ==
    /\ pc = "done"
    /\ crop_box # None
    /\ crop_box[1] = 0 /\ crop_box[2] = 0
    /\ (bbox[1] + bbox[3]) % 2 = 1
    /\ crop_box[3] < Width(img)

\* The label edges the claim gives for a content of wpx x hpx pixels at a
\* resolution, <<long, short>> in 1/(5*dpi) inch (1in = 5*dpi units, 0.2in = dpi).
NominalEdges(wpx, hpx, dpi) ==
    LET larger == IF wpx >= hpx THEN wpx ELSE hpx
        smaller == IF wpx >= hpx THEN hpx ELSE wpx
        inch == 5 * dpi
    IN  CASE larger > 5 * dpi -> <<6 * inch, 4 * inch>>
          [] larger <= 5 * dpi /\ larger > 3 * dpi -> <<4 * inch, 2 * inch>>
          [] larger <= 3 * dpi -> <<5 * larger + dpi, 5 * smaller + dpi>>

\* A 1230 x 820 px bbox at 203 dpi is a 6in x 4in label; 5in exactly
\* (1015 px) is a 4in x 2in one, 3in exactly (609 px) a custom one.
C9_At203 ==
    /\ LabelEdges(<<100, 200, 1330, 1020>>, DefaultDpi) = <<6 * 5 * 203, 4 * 5 * 203>>
    /\ LabelEdges(<<0, 0, 1015, 7>>, DefaultDpi) = <<4 * 5 * 203, 2 * 5 * 203>>
    /\ LabelEdges(<<0, 0, 7, 1016>>, DefaultDpi) = <<6 * 5 * 203, 4 * 5 * 203>>
    /\ LabelEdges(<<0, 0, 7, 609>>, DefaultDpi) = <<5 * 609 + 203, 5 * 7 + 203>>
    /\ LabelEdges(<<0, 0, 610, 7>>, DefaultDpi) = <<4 * 5 * 203, 2 * 5 * 203>>

\* C9: the label size comes from the larger content dimension alone: above
\* 5in it is 6in x 4in, else above 3in it is 4in x 2in, else the larger and
\* the smaller content dimension plus 0.2in each; the bounds are strict.
C9_LabelSizeFromLargerDimension ==
    /\ C9_At203
    /\ label_edges # None =>
          label_edges = NominalEdges(bbox[3] - bbox[1], bbox[4] - bbox[2], TargetDpi)

\* C9 witness: a content exactly 5in high and narrower was given 4in x 2in.
C9_Witness ==
    /\ label_edges = <<4 * 5 * TargetDpi, 2 * 5 * TargetDpi>>
    /\ bbox[4] - bbox[2] = 5 * TargetDpi
    /\ bbox[3] - bbox[1] < 5 * TargetDpi

\* The rule of the claim on a crop of cw x ch pixels: aspect ratio above 1,
\* or content higher than 70% of the page and aspect ratio above 0.5.
RotationRule(cw, ch, content_height, page_height) ==
    \/ cw > ch
    \/ (10 * content_height > 7 * page_height /\ 2 * cw > ch)

\* out is im turned a quarter counter-clockwise: the sizes are swapped and
\* the pixel (x, y) of im is the pixel (y, width - 1 - x) of out.
QuarterTurnLeft(im, out) ==
    /\ out.size = <<Height(im), Width(im)>>
    /\ out.mode = im.mode
    /\ \A y \in Rows(im) : \A x \in Cols(im) :
          out.px[Width(im) - 1 - x][y] = im.px[y][x]

\* A 1230 x 820 px bbox anywhere on the 1726 x 2234 px page at 203 dpi is
\* below 70% of the page height, its crop is wider than high, it is rotated.
C10_At203 ==
    \A l \in {0, 1, 248, 495, 496}, t \in {0, 1, 707, 1413, 1414} :
        LET box == <<l, t, l + 1230, t + 820>>
            crop == CropBox(box, LabelEdges(box, DefaultDpi), 1726, 2234)
        IN  /\ ~SpansPageHeight(box, 2234)
            /\ crop[3] - crop[1] > crop[4] - crop[2]
            /\ NeedsRotation(<<crop[3] - crop[1], crop[4] - crop[2]>>,
                             SpansPageHeight(box, 2234))

\* C10: the crop is turned 90 degrees counter-clockwise exactly when its
\* width/height ratio is above 1.0, or the content bbox is higher than 70%
\* of the page and the ratio is above 0.5; otherwise it is returned as cropped.
C10_RotationRule ==
    /\ C10_At203
    /\ pc # "ZeroDivisionError"
    /\ (pc = "done" /\ cropped # NoImage) =>
          IF RotationRule(Width(cropped), Height(cropped), bbox[4] - bbox[2], Height(img))
          THEN needs_rotation /\ QuarterTurnLeft(cropped, result)
          ELSE ~needs_rotation /\ result = cropped

\* C10 witness: a crop higher than wide was rotated because the content
\* spans the page height.
C10_Witness ==
    /\ pc = "done"
    /\ needs_rotation
    /\ Width(cropped) < Height(cropped)
    /\ Width(result) > Height(result)
    /\ Said("Tall content spanning page height - likely rotated label")


\* The rule applied once more to a crop it has turned (w x h before the
\* turn, h x w after it) turns it again exactly when the content spans the
\* page height and the crop was less than twice as wide as high.
TurnsAgain(w, h, spans) == spans /\ 2 * h > w

\* Crops of the sizes of a 203 dpi rendering: wherever the rule turns a
\* crop, its decision on the turned crop is TurnsAgain; the 1218 x 812 crop
\* of a 6in x 4in label whose content spans the page height is turned, and
\* the 812 x 1218 crop it becomes would be turned again.
C11_At203 ==
    /\ \A w \in {1, 203, 406, 811, 812, 813, 1218, 1624, 1726},
          h \in {1, 203, 406, 811, 812, 813, 1218, 1624, 2234},
          spans \in BOOLEAN :
            NeedsRotation(<<w, h>>, spans) =>
                (NeedsRotation(<<h, w>>, spans) <=> TurnsAgain(w, h, spans))
    /\ NeedsRotation(<<1218, 812>>, TRUE)
    /\ NeedsRotation(<<812, 1218>>, TRUE)
    /\ ~NeedsRotation(<<812, 1218>>, FALSE)

\* C11 as stated: for every crop the orientation rule decides to rotate,
\* the same rule on the rotated crop (width and height swapped, the same
\* spans-page-height input) decides not to rotate.
C11_Original ==
    (pc = "done" /\ needs_rotation) =>
        ~NeedsRotation(result.size, SpansPageHeight(bbox, Height(img)))

\* C11 amended: for every crop the orientation rule decides to rotate, the
\* same rule on the rotated crop (width and height swapped, the same
\* spans-page-height input) decides not to rotate when the content does not
\* span the page height or the crop is at least twice as wide as high, and
\* decides to rotate again otherwise; the function takes the decision once,
\* and what it returns is the crop turned once.
C11_RotationDecidedOnce ==
    /\ C11_At203
    /\ (pc = "done" /\ needs_rotation) =>
          /\ result.size = <<Height(cropped), Width(cropped)>>
          /\ NeedsRotation(result.size, SpansPageHeight(bbox, Height(img)))
                <=> TurnsAgain(Width(cropped), Height(cropped),
                               SpansPageHeight(bbox, Height(img)))

\* C11 witness: a crop wider than high of a content that does not span the
\* page height was turned, and the rule leaves the turned crop alone.
C11_Witness ==
    /\ pc = "done"
    /\ needs_rotation
    /\ Width(cropped) > Height(cropped)
    /\ ~SpansPageHeight(bbox, Height(img))
    /\ result.size = <<Height(cropped), Width(cropped)>>
    /\ ~NeedsRotation(result.size, SpansPageHeight(bbox, Height(img)))


\* A pixel of the rendered page is ink: its grayscale sample is below the
\* detector's threshold.
Ink(im, x, y) == Luma(im.px[y][x]) < 240

\* The number of ink pixels of the columns lo .. hi - 1
InkCount(im, lo, hi) ==
    Cardinality({q \in (lo .. hi - 1) \X Rows(im) : Ink(im, q[1], q[2])})

\* Q: the strips, sw columns wide, of which more than 2% of the pixels are ink
DenseStrips(im, sw) ==
    {i \in 0 .. 19 : 100 * InkCount(im, i * sw, (i + 1) * sw) > 2 * sw * Height(im)}

\* The rows that hold ink in the columns left .. right - 1
InkRows(im, left, right) ==
    {y \in Rows(im) : \E x \in left .. right - 1 : Ink(im, x, y)}

\* The bounds the claim gives for a non-empty Q
ClaimedBounds(im, sw, Q) ==
    LET left == IF SetMin(Q) * sw - sw > 0 THEN SetMin(Q) * sw - sw ELSE 0
        right == IF (SetMax(Q) + 1) * sw + sw < Width(im)
                 THEN (SetMax(Q) + 1) * sw + sw ELSE Width(im)
        first == SetMin(InkRows(im, left, right))
        last == SetMax(InkRows(im, left, right))
    IN  <<left,
          IF first - sw > 0 THEN first - sw ELSE 0,
          right,
          IF last + 1 + sw < Height(im) THEN last + 1 + sw ELSE Height(im)>>

\* On the 1726 px wide letter page of a 203 dpi rendering the strips are 86
\* px wide: strips 2 and 9 give the columns 86 to 946, strips 0 and 19 the
\* whole width, strip 19 alone the columns 1548 to 1726.
C12_At203 ==
    /\ StripWidth(1726) = 86
    /\ RefineLeft({2, 9}, StripWidth(1726)) = 86
    /\ RefineRight({2, 9}, StripWidth(1726), 1726) = 946
    /\ RefineLeft({0, 19}, StripWidth(1726)) = 0
    /\ RefineRight({0, 19}, StripWidth(1726), 1726) = 1726
    /\ RefineLeft({19}, StripWidth(1726)) = 1548
    /\ RefineRight({19}, StripWidth(1726), 1726) = 1726

\* C12: with sw = floor(page width / 20) and Q the strips denser than 2%:
\* when Q is not empty the refined bbox runs from max(0, min(Q)*sw - sw) to
\* min(page width, (max(Q)+1)*sw + sw), which holds every strip from min(Q)
\* to max(Q) whatever its own density, and vertically over the ink of that
\* band widened by sw and clamped to the page; when Q is empty nothing is
\* refined and the bbox stays the full-page bbox it was.
C12_ColumnDensityRefinement ==
    /\ C12_At203
    /\ Said("Strip densities") =>
          LET sw == Width(img) \div 20
              Q == DenseStrips(img, sw)
          IN  /\ label_strips = Q
              /\ Q # {} =>
                    /\ Said("Refined bbox from density analysis")
                    /\ bbox = ClaimedBounds(img, sw, Q)
                    /\ \A i \in SetMin(Q) .. SetMax(Q) :
                          bbox[1] <= i * sw /\ (i + 1) * sw <= bbox[3]
              /\ Q = {} =>
                    /\ ~Said("Refined bbox from density analysis")
                    /\ bbox = Value("Initial content bbox")

\* C12 witness: two strips apart qualified, the strips between them did not
\* and lie within the refined bbox all the same; the bbox is narrower and
\* lower than the page on every side.
C12_Witness ==
    /\ pc = "done"
    /\ Said("Refined bbox from density analysis")
    /\ Cardinality(label_strips) = 2
    /\ SetMax(label_strips) - SetMin(label_strips) > 1
    /\ bbox[1] > 0 /\ bbox[2] > 0
    /\ bbox[3] < Width(img) /\ bbox[4] < Height(img)
    /\ bbox[3] - bbox[1] > (SetMax(label_strips) - SetMin(label_strips)) * StripWidth(Width(img))


(***************************************************************************)
(* Properties of print_image.                                              *)
(***************************************************************************)

\* ceil(w / 8): the least n with 8n >= w
Ceil8(w) == CHOOSE n \in 0 .. w : 8 * n >= w /\ (n = 0 \/ 8 * (n - 1) < w)

\* The ^GFA line of a w x h bitmap: total_bytes twice, then bytes_per_row.
GfaLine(w, h) == <<"^GFA", Ceil8(w) * h, Ceil8(w) * h, Ceil8(w)>>

\* An 812 x 1218 bitmap: 102 bytes per row, 124236 bytes in all.
C3_Scenario ==
    /\ BytesPerRow(812) = 102
    /\ Zpl(BytesPerRow(812) * 1218, BytesPerRow(812), <<>>).gfa
          = <<"^GFA", 124236, 124236, 102>>

\* C3: for a W x H bitmap with W >= 1 and H >= 1, bytes_per_row is
\* ceil(W/8), total_bytes is bytes_per_row x H, and the ^GFA line carries
\* total_bytes twice, then bytes_per_row; 812 x 1218 gives 102 and 124236.
C3_HeaderByteCounts ==
    /\ C3_Scenario
    /\ (Width(pil_image) >= 1 /\ Height(pil_image) >= 1) =>
          /\ temp_file # NoZpl => temp_file.gfa = GfaLine(Width(pil_image), Height(pil_image))
          /\ \A n \in 1 .. Len(spooled) :
                spooled[n].gfa = GfaLine(Width(pil_image), Height(pil_image))

\* C3 witness: a 9 x 2 bitmap went out as 4 bytes, 2 per row.
C3_Witness ==
    /\ pil_image.size = <<9, 2>>
    /\ Len(spooled) = 1
    /\ spooled[1].gfa = <<"^GFA", 4, 4, 2>>

\* The value of an uppercase hex digit
HexValue(c) ==
    CASE c = "0" -> 0 [] c = "1" -> 1 [] c = "2" -> 2 [] c = "3" -> 3
      [] c = "4" -> 4 [] c = "5" -> 5 [] c = "6" -> 6 [] c = "7" -> 7
      [] c = "8" -> 8 [] c = "9" -> 9 [] c = "A" -> 10 [] c = "B" -> 11
      [] c = "C" -> 12 [] c = "D" -> 13 [] c = "E" -> 14 [] c = "F" -> 15

UpperHex == {"0", "1", "2", "3", "4", "5", "6", "7", "8", "9",
             "A", "B", "C", "D", "E", "F"}

\* Bit x of a hex row, the most significant bit of the first digit being bit 0.
DecodedBit(hex_row, x) ==
    LET v == HexValue(hex_row[(x \div 4) + 1])
        k == x % 4
    IN  IF k = 0 THEN v \div 8
        ELSE IF k = 1 THEN (v \div 4) % 2
        ELSE IF k = 2 THEN (v \div 2) % 2
        ELSE v % 2

\* The hex rows are those of the bitmap: one row of 2*ceil(W/8) uppercase
\* hex digits per bitmap row, whose bits are the bitmap's pixels (a non-zero
\* pixel of the mode "1" image is a set bit) followed by zero bits.
RoundTrips(mono, hex_rows) ==
    /\ Len(hex_rows) = Height(mono)
    /\ \A y \in Rows(mono) :
          LET row == hex_rows[y + 1]
          IN  /\ Len(row) = 2 * Ceil8(Width(mono))
              /\ \A n \in 1 .. Len(row) : row[n] \in UpperHex
              /\ \A x \in 0 .. 8 * Ceil8(Width(mono)) - 1 :
                    DecodedBit(row, x) =
                        IF x < Width(mono) /\ mono.px[y][x] # 0 THEN 1 ELSE 0

\* C4: whenever print_image hands a raster block to the spooler, its hex
\* body has exactly H rows of exactly 2*ceil(W/8) uppercase hex digits, and
\* decoding them most significant bit first gives back the bit of every
\* pixel of the monochrome bitmap and 0 for every padding bit.
C4_RoundTrip ==
    [][Len(spooled') > Len(spooled) =>
          /\ temp_file' = spooled'[Len(spooled')]
          /\ RoundTrips(ToMono(pil_image, threshold_var), temp_file'.hex_rows)]_vars

\* C4 witness: the 9 x 2 bitmap with every other pixel set went out as the
\* rows AA80 and 5500.
C4_Witness ==
    /\ pil_image.size = <<9, 2>>
    /\ pil_image.mode = "L"
    /\ threshold_var = 128
    /\ Len(spooled) = 1
    /\ spooled[1].hex_rows = <<<<"A", "A", "8", "0">>, <<"5", "5", "0", "0">>>>

\* The luminance sample of a pixel: the value of an "L" or "1" pixel, the
\* luma of an "RGB" pixel.
Sample(im, x, y) == IF im.mode = "RGB" THEN Luma(im.px[y][x]) ELSE im.px[y][x]

\* C5: whatever the mode of the image, a pixel goes out as ink (bit 1) if
\* and only if its luminance sample is below the threshold.
C5_Polarity ==
    [][Len(spooled') > Len(spooled) =>
          \A y \in Rows(pil_image) : \A x \in Cols(pil_image) :
              (DecodedBit(temp_file'.hex_rows[y + 1], x) = 1)
                  <=> (Sample(pil_image, x, y) < threshold_var)]_vars

\* C6: a bitmap of zero width or zero height is rejected with an error:
\* nothing is written for it and nothing is handed to the spooler, so no
\* ^GFA block of 0 bytes or with an empty body goes out.
C6_ZeroSizeRejected ==
    /\ (Width(pil_image) = 0 \/ Height(pil_image) = 0) =>
          temp_file = NoZpl /\ spooled = <<>>
    /\ \A n \in 1 .. Len(spooled) :
          spooled[n].gfa[2] # 0 /\ spooled[n].hex_rows # <<>>

(***************************************************************************)
(* Properties of the application.                                          *)
(***************************************************************************)

\* C13: whenever print_image encodes an image and hands it to the spooler,
\* the Print button is enabled and the image is the one that loads from the
\* selected file under the current extract setting; an image loaded from a
\* file selected before is never printed under the file selected now.
C13_PrintsSelectedFile ==
    [][Len(spooled') > Len(spooled) =>
          /\ print_button = "normal"
          /\ Opened[image_path][extract_label_var].error = ""
          /\ pil_image = Opened[image_path][extract_label_var].image]_vars

=============================================================================
